---- MODULE Spec2Model ----
(***************************************************************************)
(* A model of the rubygems-crawler client library: the expiring in-memory  *)
(* cache (pkg/cache/cache.go), and of the repository package the retry     *)
(* loop (SendRequestWithRetry) and the bulk operations (BulkGetPackages    *)
(* and its siblings, on runWorkerPool).                                    *)
(*                                                                         *)
(* Time is a natural number; one unit of model time is 20 minutes, so that *)
(* time.Hour is 3 units.  The zero time.Time (IsZero) is the number 0 and  *)
(* the clock starts at 1.                                                  *)
(***************************************************************************)
EXTENDS Integers, Sequences, FiniteSets, TLC

VARIABLES
    now,                \* time.Now()
    defaultExpiration,  \* MemoryCache.defaultExpiration
    cleanupInterval,    \* MemoryCache.cleanupInterval
    items,              \* MemoryCache.items: a function on the stored keys
    closed,             \* MemoryCache.closed
    stopCleanup,        \* MemoryCache.stopCleanup: "open" or "closed" channel
    panicked,           \* a close of a closed channel happened
    callPc,             \* per caller: "idle", or "lock" inside SetWithExpiration
    callArgs,           \* per caller: the locals of its SetWithExpiration
    sweepPc,            \* position of the startCleanupTimer goroutine
    sweepNow,           \* the local `now` of deleteExpired
    tickerC,            \* ticker.C holds a tick (a channel of capacity 1)
    nextTick,           \* the time of the ticker's next tick
    ret,                \* the call that just returned and what it returned
    written,            \* history: per key, the last committed write
    rOpts,              \* the RetryOptions of the call
    rPc,                \* position of SendRequestWithRetry
    attempt,            \* the loop variable `attempt`
    lastErr,            \* the local lastErr
    lastResp,           \* the local lastResp
    waitTime,           \* the local waitTime of the pending wait
    ctxDone,            \* ctx.Done() is closed
    rRet,               \* the (Response, error) returned
    sendLog,            \* history: one record per transport request sent
    srRet,              \* the last call of RetryOptions.ShouldRetry
    gemNames,           \* the gemNames of the bulk call
    bOpts,              \* the BulkOptions of the bulk call
    failOn,             \* the gems the repository has no package for
    bCtxDone,           \* the ctx.Done() of the bulk call is closed
    bPc,                \* position of the goroutine that runs the bulk call
    bNext,              \* the loop variable of the dispatch loop
    jobs,               \* the channel jobs: the indices sent and not received
    jobsClosed,         \* close(jobs) happened
    workers,            \* per worker goroutine: its position and its job
    results,            \* the slice results: per index, nil or a *BulkResult
    sharedCache,        \* the store of the CachedRepository is the caller's
    defaultTTL,         \* CachedRepository.defaultTTL
    stopCleanupCh,      \* CachedRepository.stopCleanupCh: "open" or "closed"
    crPanicked,         \* CachedRepository.Close closed a closed channel
    crPc,               \* position of the caller inside a cached operation
    crCall,             \* the operation in progress and its parameters
    innerCalls,         \* the number of calls the wrapped repository received
    crLog,              \* history: one record per cached operation returned
    crOps               \* the number of calls of the CachedRepository begun

cacheVars == <<now, defaultExpiration, cleanupInterval, items, closed,
               stopCleanup, panicked, callPc, callArgs, sweepPc, sweepNow,
               tickerC, nextTick, ret, written>>
retryVars == <<rOpts, rPc, attempt, lastErr, lastResp, waitTime, ctxDone,
               rRet, sendLog>>
optVars == <<srRet>>
bulkVars == <<gemNames, bOpts, failOn, bCtxDone, bPc, bNext, jobs, jobsClosed,
              workers, results>>
crVars == <<sharedCache, defaultTTL, stopCleanupCh, crPanicked, crPc, crCall, innerCalls,
            crLog, crOps>>
vars == <<cacheVars, retryVars, optVars, bulkVars, crVars>>

----------------------------------------------------------------------------
(* Bounds of the model *)
MaxTime == 3
MaxAttemptsBound == 3
MaxJobs == 2
MaxCalls == 2
MaxBackoffAttempts == 67

(* Inputs *)
Keys == {"k1", "k2"}
Values == {"v1", "v2"}
\* the (key, value) pairs the callers write
Writes == {<<"k1", "v1">>, <<"k1", "v2">>, <<"k2", "v1">>}
Callers == {"c1"}
TTLs == {-1, 1}
\* the arguments of NewMemoryCache: (defaultExpiration, cleanupInterval)
CacheConfigs == {<<0, 0>>, <<1, 1>>}

(* time.Hour, in units of 20 minutes *)
Hour == 3

Nil == "nil"
NoArgs == [key |-> Nil, value |-> Nil, d |-> 0, expiration |-> 0, setTime |-> 0]
NoRet == [op |-> "none", key |-> Nil, value |-> Nil, found |-> FALSE, count |-> 0,
          again |-> FALSE]

----------------------------------------------------------------------------
(* pkg/cache/cache.go.  The field cacheItem.created is written by           *)
(* SetWithExpiration and read nowhere; the model leaves it out.             *)

\* NewMemoryCache: a non-positive default expiration becomes one hour
NormalizeDefaultExpiration(d) == IF d <= 0 THEN Hour ELSE d

\* a variant of the expiry test that takes an entry to be expired at the
\* instant of its expiration already
IsExpiredAtDeadline(item, t) == item.expiration # 0 /\ item.expiration <= t

\* a variant of the expiry test without the IsZero test
IsExpiredNoZeroCheck(item, t) == item.expiration < t

\* the expiry test shared by Get and deleteExpired:
\* !item.expiration.IsZero() && item.expiration.Before(t)
IsExpired(item, t) == item.expiration # 0 /\ item.expiration < t

\* a variant of Get without the expiry test
GetIgnoringExpiry(key) ==
    IF key \notin DOMAIN items
    THEN [value |-> Nil, found |-> FALSE]
    ELSE [value |-> items[key].value, found |-> TRUE]

\* MemoryCache.Get, the value pair it returns
Get(key) ==
    IF key \notin DOMAIN items
    THEN [value |-> Nil, found |-> FALSE]
    ELSE IF IsExpired(items[key], now)
         THEN [value |-> Nil, found |-> FALSE]
         ELSE [value |-> items[key].value, found |-> TRUE]

\* MemoryCache.SetWithExpiration, lines 114-123: the expiration it computes
ComputeExpiration(d) ==
    LET d2 == IF d = 0 THEN defaultExpiration ELSE d
    IN  IF d2 > 0 THEN now + d2 ELSE 0

\* a variant of the store that keeps the expiration of an existing entry
StoreItemKeepExpiration(key, value, expiration) ==
    [k \in DOMAIN items \cup {key} |->
        IF k = key
        THEN [value |-> value,
              expiration |-> IF key \in DOMAIN items THEN items[key].expiration
                             ELSE expiration]
        ELSE items[k]]

\* a variant of the store that keeps the later of the expirations of the
\* existing entry and the new one
StoreItemLaterExpiration(key, value, expiration) ==
    [k \in DOMAIN items \cup {key} |->
        IF k = key
        THEN [value |-> value,
              expiration |-> IF key \in DOMAIN items
                                    /\ items[key].expiration > expiration
                             THEN items[key].expiration
                             ELSE expiration]
        ELSE items[k]]

\* MemoryCache.SetWithExpiration, lines 128-132: the map after the store
StoreItem(key, value, expiration) ==
    [k \in DOMAIN items \cup {key} |->
        IF k = key
        THEN [value |-> value, expiration |-> expiration]
        ELSE items[k]]

\* delete(c.items, key)
DeleteKey(m, key) == [k \in DOMAIN m \ {key} |-> m[k]]

\* a variant of Count that counts the entries that have not expired
CountLive == Cardinality({k \in DOMAIN items : ~(items[k].expiration # 0 /\ items[k].expiration < now)})

\* MemoryCache.Count: len(c.items)
Count == Cardinality(DOMAIN items)

\* a variant of the scan that removes nothing
SweepItemsNone(t) == items

\* a variant of the scan that removes every entry
SweepItemsAll(t) == [k \in {} |-> items[k]]

\* MemoryCache.deleteExpired, lines 192-197: the map after the scan
SweepItems(t) ==
    [k \in {x \in DOMAIN items : ~IsExpired(items[x], t)} |-> items[k]]

EmptyMap == [k \in {} |-> Nil]

\* the state NewMemoryCache(d, s) returns, used by the callers cs
NewMemoryCache(d, s, cs) ==
    /\ now = 1
    /\ defaultExpiration = NormalizeDefaultExpiration(d)
    /\ cleanupInterval = s
    /\ items = EmptyMap
    /\ closed = FALSE
    /\ stopCleanup = "open"
    /\ panicked = FALSE
    /\ callPc = [c \in cs |-> "idle"]
    /\ callArgs = [c \in cs |-> NoArgs]
    /\ sweepPc = IF s > 0 THEN "start" ELSE "off"
    /\ sweepNow = 0
    /\ tickerC = FALSE
    /\ nextTick = 0
    /\ ret = NoRet
    /\ written = EmptyMap

CacheInit == \E cfg \in CacheConfigs : NewMemoryCache(cfg[1], cfg[2], Callers)

\* the ticker of the running sweep goroutine has a tick due
TickDue == sweepPc \in {"select", "deleteExpired"} /\ now >= nextTick

\* the clock advances; the runtime delivers a due tick before time moves on
AdvanceTime ==
    /\ now < MaxTime
    /\ ~TickDue
    /\ now' = now + 1
    /\ ret' = NoRet
    /\ UNCHANGED <<defaultExpiration, cleanupInterval, items, closed, stopCleanup,
                   panicked, callPc, callArgs, sweepPc, sweepNow, tickerC,
                   nextTick, written>>
    /\ UNCHANGED <<retryVars, optVars, bulkVars, crVars>>

\* Get(key)
CallGet(key) ==
    /\ ret' = [NoRet EXCEPT !.op = "Get", !.key = key, !.value = Get(key).value,
                            !.found = Get(key).found]
    /\ UNCHANGED <<now, defaultExpiration, cleanupInterval, items, closed,
                   stopCleanup, panicked, callPc, callArgs, sweepPc, sweepNow,
                   tickerC, nextTick, written>>
    /\ UNCHANGED <<retryVars, optVars, bulkVars, crVars>>

\* SetWithExpiration(key, value, d), lines 114-123: before the lock is taken
SetBegin(c, key, value, d) ==
    /\ callPc[c] = "idle"
    /\ callPc' = [callPc EXCEPT ![c] = "lock"]
    /\ callArgs' = [callArgs EXCEPT ![c] =
            [key |-> key, value |-> value, d |-> d,
             expiration |-> ComputeExpiration(d), setTime |-> now]]
    /\ ret' = NoRet
    /\ UNCHANGED <<now, defaultExpiration, cleanupInterval, items, closed,
                   stopCleanup, panicked, sweepPc, sweepNow, tickerC, nextTick,
                   written>>
    /\ UNCHANGED <<retryVars, optVars, bulkVars, crVars>>

\* Set(key, value) is SetWithExpiration(key, value, c.defaultExpiration)
CallSet(c, key, value) == SetBegin(c, key, value, defaultExpiration)

\* SetWithExpiration(key, value, d) for an explicit d
CallSetWithExpiration(c, key, value, d) == SetBegin(c, key, value, d)

\* the history of a committed write: its value, the sign of the ttl it was
\* given and the time at which the spec has it expire (0: never), taken from
\* the arguments of the call and the time the call read the clock
WriteRecord(args) ==
    [value |-> args.value,
     sign |-> IF args.d > 0 THEN 1 ELSE IF args.d < 0 THEN -1 ELSE 0,
     expires |-> IF args.d > 0 THEN args.setTime + args.d
                 ELSE IF args.d < 0 THEN 0
                 ELSE args.setTime + defaultExpiration]

\* SetWithExpiration, lines 125-132: under the write lock
SetCommit(c) ==
    /\ callPc[c] = "lock"
    /\ items' = StoreItem(callArgs[c].key, callArgs[c].value, callArgs[c].expiration)
    /\ written' = [k \in DOMAIN written \cup {callArgs[c].key} |->
                     IF k = callArgs[c].key THEN WriteRecord(callArgs[c])
                     ELSE written[k]]
    /\ ret' = [NoRet EXCEPT !.op = "Set", !.key = callArgs[c].key,
                            !.again = callArgs[c].key \in DOMAIN items]
    /\ callPc' = [callPc EXCEPT ![c] = "idle"]
    /\ callArgs' = [callArgs EXCEPT ![c] = NoArgs]
    /\ UNCHANGED <<now, defaultExpiration, cleanupInterval, closed, stopCleanup,
                   panicked, sweepPc, sweepNow, tickerC, nextTick>>
    /\ UNCHANGED <<retryVars, optVars, bulkVars, crVars>>

\* Delete(key)
CallDelete(key) ==
    /\ items' = DeleteKey(items, key)
    /\ written' = DeleteKey(written, key)
    /\ ret' = NoRet
    /\ UNCHANGED <<now, defaultExpiration, cleanupInterval, closed, stopCleanup,
                   panicked, callPc, callArgs, sweepPc, sweepNow, tickerC,
                   nextTick>>
    /\ UNCHANGED <<retryVars, optVars, bulkVars, crVars>>

\* a variant of Clear that leaves one of the entries in the map
ClearedItemsButOne(m) ==
    IF DOMAIN m = {} THEN EmptyMap
    ELSE [k \in {CHOOSE x \in DOMAIN m : TRUE} |-> m[k]]

\* Clear, line 148: c.items = make(map[string]cacheItem)
ClearedItems(m) == EmptyMap

\* Clear()
CallClear ==
    /\ items' = ClearedItems(items)
    /\ written' = EmptyMap
    /\ ret' = [NoRet EXCEPT !.op = "Clear", !.count = Count]
    /\ UNCHANGED <<now, defaultExpiration, cleanupInterval, closed, stopCleanup,
                   panicked, callPc, callArgs, sweepPc, sweepNow, tickerC,
                   nextTick>>
    /\ UNCHANGED <<retryVars, optVars, bulkVars, crVars>>

\* Count()
CallCount ==
    /\ ret' = [NoRet EXCEPT !.op = "Count", !.count = Count]
    /\ UNCHANGED <<now, defaultExpiration, cleanupInterval, items, closed,
                   stopCleanup, panicked, callPc, callArgs, sweepPc, sweepNow,
                   tickerC, nextTick, written>>
    /\ UNCHANGED <<retryVars, optVars, bulkVars, crVars>>

\* a variant of Close without the test of c.closed
CloseChannelUnguarded ==
    IF stopCleanup = "closed"
    THEN [stop |-> stopCleanup, panic |-> TRUE]
    ELSE [stop |-> "closed", panic |-> panicked]

\* Close(), lines 164-167: what becomes of the channel; closing a closed
\* channel panics
CloseChannel ==
    IF closed
    THEN [stop |-> stopCleanup, panic |-> panicked]
    ELSE IF stopCleanup = "closed"
         THEN [stop |-> stopCleanup, panic |-> TRUE]
         ELSE [stop |-> "closed", panic |-> panicked]

\* Close()
CallClose ==
    /\ stopCleanup' = CloseChannel.stop
    /\ panicked' = CloseChannel.panic
    /\ closed' = TRUE
    /\ ret' = [NoRet EXCEPT !.op = "Close", !.again = closed]
    /\ UNCHANGED <<now, defaultExpiration, cleanupInterval, items, callPc,
                   callArgs, sweepPc, sweepNow, tickerC, nextTick, written>>
    /\ UNCHANGED <<retryVars, optVars, bulkVars, crVars>>

\* startCleanupTimer, line 172: the goroutine starts and creates its ticker
SweepStart ==
    /\ sweepPc = "start"
    /\ sweepPc' = "select"
    /\ nextTick' = now + cleanupInterval
    /\ ret' = NoRet
    /\ UNCHANGED <<now, defaultExpiration, cleanupInterval, items, closed,
                   stopCleanup, panicked, callPc, callArgs, sweepNow, tickerC,
                   written>>
    /\ UNCHANGED <<retryVars, optVars, bulkVars, crVars>>

\* the runtime's ticker: a tick is sent every cleanupInterval and dropped
\* when the channel still holds the previous one
TickerFire ==
    /\ TickDue
    /\ tickerC' = TRUE
    /\ nextTick' = nextTick + cleanupInterval
    /\ ret' = NoRet
    /\ UNCHANGED <<now, defaultExpiration, cleanupInterval, items, closed,
                   stopCleanup, panicked, callPc, callArgs, sweepPc, sweepNow,
                   written>>
    /\ UNCHANGED <<retryVars, optVars, bulkVars, crVars>>

\* startCleanupTimer, line 177 and deleteExpired, line 187: the select takes
\* the tick and deleteExpired reads the clock
SweepTick ==
    /\ sweepPc = "select"
    /\ tickerC
    /\ tickerC' = FALSE
    /\ sweepNow' = now
    /\ sweepPc' = "deleteExpired"
    /\ ret' = NoRet
    /\ UNCHANGED <<now, defaultExpiration, cleanupInterval, items, closed,
                   stopCleanup, panicked, callPc, callArgs, nextTick,
                   written>>
    /\ UNCHANGED <<retryVars, optVars, bulkVars, crVars>>

\* deleteExpired, lines 189-197: the scan under the write lock
SweepDelete ==
    /\ sweepPc = "deleteExpired"
    /\ items' = SweepItems(sweepNow)
    /\ sweepPc' = "select"
    /\ sweepNow' = 0
    /\ ret' = NoRet
    /\ UNCHANGED <<now, defaultExpiration, cleanupInterval, closed, stopCleanup,
                   panicked, callPc, callArgs, tickerC, nextTick, written>>
    /\ UNCHANGED <<retryVars, optVars, bulkVars, crVars>>

\* startCleanupTimer, lines 179-180: the select takes the stop signal, and
\* the deferred ticker.Stop() runs
SweepStop ==
    /\ sweepPc = "select"
    /\ stopCleanup = "closed"
    /\ sweepPc' = "stopped"
    /\ tickerC' = FALSE
    /\ nextTick' = 0
    /\ ret' = NoRet
    /\ UNCHANGED <<now, defaultExpiration, cleanupInterval, items, closed,
                   stopCleanup, panicked, callPc, callArgs, sweepNow,
                   written>>
    /\ UNCHANGED <<retryVars, optVars, bulkVars, crVars>>

\* the steps of the cache with its callers writing the (key, value) pairs ws
\* with the ttls ds
CacheNextOver(ws, ds) ==
    \/ AdvanceTime
    \/ \E w \in ws : CallGet(w[1])
    \/ \E c \in DOMAIN callPc, w \in ws : CallSet(c, w[1], w[2])
    \/ \E c \in DOMAIN callPc, w \in ws, d \in ds :
            CallSetWithExpiration(c, w[1], w[2], d)
    \/ \E c \in DOMAIN callPc : SetCommit(c)
    \/ \E w \in ws : CallDelete(w[1])
    \/ CallClear
    \/ CallCount
    \/ CallClose
    \/ SweepStart
    \/ TickerFire
    \/ SweepTick
    \/ SweepDelete
    \/ SweepStop

CacheNext == CacheNextOver(Writes, TTLs)

----------------------------------------------------------------------------
(* pkg/repository: RetryOptions and SendRequestWithRetry *)

\* the values the caller may put into RetryOptions
WaitTimes == {0, 1, 3}
MaxWaitTimes == {2, 4}
\* RetryOptions.ShouldRetry: the default function, and two caller-supplied
\* ones, one that retries nothing and one that retries all errors but a 404
ShouldRetryFuncs == {"default", "never", "not404"}

\* what one transport request can return: (resp, err)
\* an error is the sequence of the parts of its message; the nil error is
\* the empty one
ZeroResp == "zero"
NilErr == <<>>
Errors == {<<"net">>, <<"e404">>, <<"e500">>}
CtxErr == <<"context canceled">>
Outcomes(done) ==
    {[resp |-> "body", err |-> NilErr]} \cup
    {[resp |-> ZeroResp, err |-> e] : e \in Errors} \cup
    (IF done THEN {[resp |-> ZeroResp, err |-> CtxErr]} ELSE {})

\* a variant that retries on every status of the 5xx class
DefaultShouldRetryServerErrors(status, err) ==
    IF err # NilErr THEN TRUE
    ELSE IF status # 0 /\ (status = 429 \/ status >= 500) THEN TRUE
    ELSE FALSE

\* the ShouldRetry function of NewDefaultRetryOptions; status 0 is a nil resp
DefaultShouldRetry(status, err) ==
    IF err # NilErr THEN TRUE
    ELSE IF status # 0 /\ status \in {429, 500, 502, 503, 504} THEN TRUE
    ELSE FALSE

\* RetryOptions.ShouldRetry applied to (resp, err)
ShouldRetry(f, status, err) ==
    CASE f = "default" -> DefaultShouldRetry(status, err)
      [] f = "never"   -> FALSE
      [] f = "not404"  -> err # NilErr /\ err # <<"e404">>

\* a variant of the loop condition that allows one attempt more
LoopConditionInclusive(att, opts) == att <= opts.MaxAttempts

\* line 483: the loop condition
LoopCondition(att, opts) == att < opts.MaxAttempts

\* line 485: whether a wait precedes this attempt
WaitNeeded(att) == att > 0

\* a variant that shifts by the loop index itself
FactorOfIndex(att) == 2 ^ att

\* int and time.Duration are 64 bits wide
IntBits == 64

\* The options of the model are small numbers. A number of 2^30 or more is
\* kept as Huge and one of -2^30 or less as -Huge: math.MinInt64 is -Huge,
\* math.MaxInt64 is Huge. Every comparison the code makes is one with an
\* option, so it has the same outcome.
Huge == 2 ^ 30

\* line 490: factor := 1 << uint(attempt-1), an int: the bit leaves the
\* positive range at a shift of 63 and the word at a shift of 64
Factor(att) ==
    IF att - 1 >= IntBits THEN 0
    ELSE IF att - 1 = IntBits - 1 THEN -Huge
    ELSE IF att - 1 >= 30 THEN Huge
    ELSE 2 ^ (att - 1)

\* whether w * 2^shift is 2^63 or more, for 0 < w < 2^30 and shift < 63
Exceeds63(w, shift) ==
    /\ IntBits - 1 - shift < 30
    /\ w >= 2 ^ (IntBits - 1 - shift)

\* a variant of the conversion that saturates at both ends on every build
ConvertedSaturating(w, att) ==
    IF w = 0 \/ Factor(att) = 0 THEN {0}
    ELSE IF Factor(att) = -Huge THEN {-Huge}
    ELSE IF att - 1 >= 30 THEN {Huge}
    ELSE {w * Factor(att)}

\* line 491: time.Duration(float64(waitTime) * float64(factor)) for a
\* waitTime w >= 0: the values the conversion can give. The product of a
\* small number and a power of two is exact in float64. A product outside
\* the range of int64 converts to a value that depends on the build:
\* math.MinInt64 where the conversion instruction reports an overflow so
\* (amd64), the nearest end of the range where it saturates (arm64).
Converted(w, att) ==
    IF w = 0 \/ Factor(att) = 0 THEN {0}
    ELSE IF Factor(att) = -Huge THEN {-Huge}
    ELSE IF Exceeds63(w, att - 1) THEN {-Huge, Huge}
    ELSE IF att - 1 >= 30 THEN {Huge}
    ELSE {w * Factor(att)}

\* lines 486-495: the wait before the attempt with loop index att > 0, as
\* the set of the values the build can compute
WaitBefore(att, opts) ==
    IF opts.UseExponentialBackoff
    THEN {IF w > opts.MaxWaitTime THEN opts.MaxWaitTime ELSE w :
            w \in Converted(opts.WaitTime, att)}
    ELSE {opts.WaitTime}

\* a variant that goes on after a successful request, too
RetryAfterAlways(opts, resp, err) == TRUE

\* lines 512-524: whether the loop goes on after a request returned
\* (resp, err); opts.ShouldRetry is not consulted
RetryAfter(opts, resp, err) == IF err # NilErr THEN TRUE ELSE FALSE

\* a variant that returns the last failure as it is
ExhaustedReturnBare(resp, err) == [resp |-> resp, err |-> err]

\* lines 531-535: the return after the loop
\* errors.New("max retry attempts reached: " + lastErr.Error())
ExhaustedReturn(resp, err) ==
    IF err # NilErr
    THEN [resp |-> resp, err |-> <<"max retry attempts reached">> \o err]
    ELSE [resp |-> resp, err |-> NilErr]

NoWait == -1
NoReturn == [resp |-> "none", err |-> <<"none">>]

RetryInit ==
    /\ rOpts \in [MaxAttempts : (-1)..MaxAttemptsBound,
                  WaitTime : WaitTimes,
                  MaxWaitTime : MaxWaitTimes,
                  UseExponentialBackoff : BOOLEAN,
                  ShouldRetry : ShouldRetryFuncs]
    /\ rPc = "loop"
    /\ attempt = 0
    /\ lastErr = NilErr
    /\ lastResp = ZeroResp
    /\ waitTime = NoWait
    /\ ctxDone = FALSE
    /\ rRet = NoReturn
    /\ sendLog = <<>>

\* line 483, and lines 485-495 or 531-535: the loop head
RetryLoop ==
    /\ rPc = "loop"
    /\ IF LoopCondition(attempt, rOpts)
       THEN IF WaitNeeded(attempt)
            THEN /\ waitTime' \in WaitBefore(attempt, rOpts)
                 /\ rPc' = "wait"
                 /\ rRet' = rRet
            ELSE /\ rPc' = "send"
                 /\ UNCHANGED <<waitTime, rRet>>
       ELSE /\ rPc' = "done"
            /\ rRet' = ExhaustedReturn(lastResp, lastErr)
            /\ waitTime' = waitTime
    /\ UNCHANGED <<rOpts, attempt, lastErr, lastResp, ctxDone, sendLog>>
    /\ UNCHANGED <<cacheVars, optVars, bulkVars, crVars>>

\* line 499: the timer of the select fires. The select is at rPc = "wait";
\* of a timer and a context that are both ready when the select is reached
\* (the context done before it, a wait of no length) it takes either, and
\* of a timer that still runs and a done context it takes the context
RetryWaitElapsed ==
    /\ rPc = "wait"
    /\ ctxDone => waitTime <= 0
    /\ rPc' = "send"
    /\ UNCHANGED <<rOpts, attempt, lastErr, lastResp, waitTime, ctxDone, rRet,
                   sendLog>>
    /\ UNCHANGED <<cacheVars, optVars, bulkVars, crVars>>

\* a variant that reports the cancellation as a failure of the retries
CtxDoneReturnWrapped(ctxErr) ==
    [resp |-> ZeroResp, err |-> <<"max retry attempts reached">> \o ctxErr]

\* lines 502-503: var zero Response; return zero, ctx.Err()
CtxDoneReturn(ctxErr) == [resp |-> ZeroResp, err |-> ctxErr]

\* lines 501-504: the select takes ctx.Done(): the context was done when the
\* select was reached, or its cancellation woke the waiting call
RetryWaitCancelled ==
    /\ \/ rPc = "wait" /\ ctxDone
       \/ rPc = "cancelled"
    /\ rPc' = "done"
    /\ rRet' = CtxDoneReturn(CtxErr)
    /\ UNCHANGED <<rOpts, attempt, lastErr, lastResp, waitTime, ctxDone, sendLog>>
    /\ UNCHANGED <<cacheVars, optVars, bulkVars, crVars>>

\* lines 509-527: one request and what the loop does with its outcome
RetrySend(out) ==
    /\ rPc = "send"
    /\ sendLog' = Append(sendLog,
            [resp |-> out.resp, err |-> out.err,
             wait |-> waitTime])
    /\ IF RetryAfter(rOpts, out.resp, out.err)
       THEN /\ lastErr' = (IF out.err # NilErr THEN out.err ELSE lastErr)
            /\ lastResp' = out.resp
            /\ attempt' = attempt + 1
            /\ rPc' = "loop"
            /\ rRet' = rRet
       ELSE /\ rPc' = "done"
            /\ rRet' = [resp |-> out.resp, err |-> NilErr]
            /\ lastErr' = (IF out.err # NilErr THEN out.err ELSE lastErr)
            /\ UNCHANGED <<lastResp, attempt>>
    /\ waitTime' = NoWait
    /\ UNCHANGED <<rOpts, ctxDone>>
    /\ UNCHANGED <<cacheVars, optVars, bulkVars, crVars>>

\* the caller cancels the context, or its deadline passes; a call that waits
\* in the select (line 498) is woken by it, with the case ctx.Done() taken:
\* the timer that fires later finds no receiver
CancelCtx ==
    /\ ~ctxDone
    /\ rPc # "done"
    /\ ctxDone' = TRUE
    /\ rPc' = (IF rPc = "wait" THEN "cancelled" ELSE rPc)
    /\ UNCHANGED <<rOpts, attempt, lastErr, lastResp, waitTime, rRet, sendLog>>
    /\ UNCHANGED <<cacheVars, optVars, bulkVars, crVars>>

\* lines 483-495 for a call whose requests all fail: the loop index goes up
\* by one and the wait before the next request is computed
BackoffStep ==
    /\ rPc = "loop"
    /\ LoopCondition(attempt + 1, rOpts)
    /\ attempt' = attempt + 1
    /\ waitTime' \in WaitBefore(attempt + 1, rOpts)
    /\ UNCHANGED <<rOpts, rPc, lastErr, lastResp, ctxDone, rRet, sendLog>>
    /\ UNCHANGED <<cacheVars, optVars, bulkVars, crVars>>

\* options with exponential backoff and as many attempts as the backoff
\* needs to pass the width of an int
BackoffInit ==
    /\ rOpts \in [MaxAttempts : {MaxBackoffAttempts - 1, MaxBackoffAttempts},
                  WaitTime : WaitTimes,
                  MaxWaitTime : MaxWaitTimes,
                  UseExponentialBackoff : {TRUE},
                  ShouldRetry : {"default"}]
    /\ rPc = "loop"
    /\ attempt = 0
    /\ lastErr = NilErr
    /\ lastResp = ZeroResp
    /\ waitTime = NoWait
    /\ ctxDone = FALSE
    /\ rRet = NoReturn
    /\ sendLog = <<>>

BackoffNext == BackoffStep

RetryNext ==
    \/ RetryLoop
    \/ RetryWaitElapsed
    \/ RetryWaitCancelled
    \/ \E out \in Outcomes(ctxDone) : RetrySend(out)
    \/ CancelCtx

----------------------------------------------------------------------------
(* pkg/repository: NewDefaultRetryOptions, the With... setters and a call   *)
(* of the ShouldRetry function; durations are in seconds                    *)

DefaultRetryAttempts == 3
DefaultRetryWaitTime == 1
DefaultRetryMaxWaitTime == 30

\* the (resp, err) a ShouldRetry function is called with: the status code of
\* the response, 0 for a nil response
Statuses == {0, 200, 400, 401, 403, 404, 428, 429, 430, 499, 500, 501, 502,
             503, 504, 505}
CallErrors == {NilErr, CtxErr} \cup Errors

NoCall == [f |-> "none", status |-> 0, err |-> NilErr, result |-> FALSE]

NewDefaultRetryOptions ==
    [MaxAttempts |-> DefaultRetryAttempts,
     WaitTime |-> DefaultRetryWaitTime,
     MaxWaitTime |-> DefaultRetryMaxWaitTime,
     UseExponentialBackoff |-> TRUE,
     ShouldRetry |-> "default"]

WithMaxAttempts(attempts) ==
    /\ rOpts' = [rOpts EXCEPT !.MaxAttempts = attempts]
    /\ UNCHANGED <<rPc, attempt, lastErr, lastResp, waitTime, ctxDone, rRet,
                   sendLog>>
    /\ UNCHANGED <<cacheVars, optVars, bulkVars, crVars>>

WithWaitTime(w) ==
    /\ rOpts' = [rOpts EXCEPT !.WaitTime = w]
    /\ UNCHANGED <<rPc, attempt, lastErr, lastResp, waitTime, ctxDone, rRet,
                   sendLog>>
    /\ UNCHANGED <<cacheVars, optVars, bulkVars, crVars>>

WithMaxWaitTime(maxWaitTime) ==
    /\ rOpts' = [rOpts EXCEPT !.MaxWaitTime = maxWaitTime]
    /\ UNCHANGED <<rPc, attempt, lastErr, lastResp, waitTime, ctxDone, rRet,
                   sendLog>>
    /\ UNCHANGED <<cacheVars, optVars, bulkVars, crVars>>

WithExponentialBackoff(use) ==
    /\ rOpts' = [rOpts EXCEPT !.UseExponentialBackoff = use]
    /\ UNCHANGED <<rPc, attempt, lastErr, lastResp, waitTime, ctxDone, rRet,
                   sendLog>>
    /\ UNCHANGED <<cacheVars, optVars, bulkVars, crVars>>

WithShouldRetry(shouldRetry) ==
    /\ rOpts' = [rOpts EXCEPT !.ShouldRetry = shouldRetry]
    /\ UNCHANGED <<rPc, attempt, lastErr, lastResp, waitTime, ctxDone, rRet,
                   sendLog>>
    /\ UNCHANGED <<cacheVars, optVars, bulkVars, crVars>>

\* opts.ShouldRetry(resp, err), as TestDefaultShouldRetry calls it
CallShouldRetry(status, err) ==
    /\ srRet' = [f |-> rOpts.ShouldRetry, status |-> status, err |-> err,
                 result |-> ShouldRetry(rOpts.ShouldRetry, status, err)]
    /\ UNCHANGED <<cacheVars, retryVars, bulkVars, crVars>>

OptionsInit ==
    /\ rOpts = NewDefaultRetryOptions
    /\ srRet = NoCall

OptionsNext ==
    \/ \E n \in 0..MaxAttemptsBound : WithMaxAttempts(n)
    \/ \E w \in WaitTimes : WithWaitTime(w)
    \/ \E w \in MaxWaitTimes : WithMaxWaitTime(w)
    \/ \E b \in BOOLEAN : WithExponentialBackoff(b)
    \/ \E f \in ShouldRetryFuncs \ {"default"} : WithShouldRetry(f)
    \/ \E st \in Statuses, e \in CallErrors : CallShouldRetry(st, e)

----------------------------------------------------------------------------
(* pkg/repository/bulk_operations.go: BulkGetPackages and its siblings, and *)
(* runWorkerPool.  The four Bulk methods differ in the single-item method   *)
(* they call and in the type of Value only.  Go counts the indices from 0,  *)
(* the model from 1.                                                        *)

\* the gem names a call can be made with: no name, one, distinct ones, and
\* one name twice
AllGems == <<"a", "b", "c", "d", "e">>
GemLists ==
    {SubSeq(AllGems, 1, n) : n \in 0..MaxJobs} \cup
    (IF MaxJobs >= 2 THEN {<<"a", "a">>} ELSE {})
Range(seq) == {seq[i] : i \in 1..Len(seq)}

\* the MaxConcurrency values a caller passes to WithMaxConcurrency or writes
\* into the struct: negative, zero, and from 1 to twice the number of jobs
Concurrencies == (-1)..(2 * MaxJobs)

\* NewBulkOptions
DefaultMaxConcurrency == 10
NewBulkOptions == [MaxConcurrency |-> DefaultMaxConcurrency, ContinueOnError |-> TRUE]

\* lines 43-48: WithMaxConcurrency leaves the options as they are for a
\* value that is not positive
WithMaxConcurrency(o, maxConcurrency) ==
    IF maxConcurrency > 0
    THEN [o EXCEPT !.MaxConcurrency = maxConcurrency]
    ELSE o

\* lines 52-55
WithContinueOnError(o, continueOnError) ==
    [o EXCEPT !.ContinueOnError = continueOnError]

\* the options argument: nil, options built with the With... setters, or a
\* BulkOptions struct the caller filled in
NilOptions == [nil |-> TRUE]
BulkOptionsArgs ==
    {NilOptions} \cup
    {WithContinueOnError(WithMaxConcurrency(NewBulkOptions, n), c) :
        n \in Concurrencies, c \in BOOLEAN} \cup
    [MaxConcurrency : Concurrencies, ContinueOnError : BOOLEAN]

\* lines 67-69: nil options are the default options
OptionsOrDefault(options) ==
    IF options = NilOptions THEN NewBulkOptions ELSE options

\* a variant with a channel that holds one job
JobsCapacityOne(numJobs) == 1

\* line 278: jobs := make(chan int, numJobs); a send blocks while the
\* channel holds that many jobs
JobsCapacity(numJobs) == numJobs

\* a variant of the receive that leaves the job in the channel
AfterReceiveKept(q) == q

\* line 77 of the worker: a receive takes the first job out of the channel
AfterReceive(q) == Tail(q)

\* line 282: wg.Add(numWorkers) panics on a negative counter
WaitGroupAddPanics(numWorkers) == numWorkers < 0

\* a variant without the cap
NumWorkersUncapped(numWorkers, numJobs) == numWorkers

\* lines 273-275: no more workers than jobs
NumWorkers(numWorkers, numJobs) ==
    IF numWorkers > numJobs THEN numJobs ELSE numWorkers

\* the single-item method of the repository (line 88), given the context's
\* state when it returns: the package, or the error of a gem that does not
\* exist, or, of a context that is done, possibly the context's error
NotFound == <<"gem not found">>
NoValue == <<>>
Package(name) == <<"package", name>>
FetchOutcomes(name, missing, done) ==
    {IF name \in missing
     THEN [Value |-> NoValue, Error |-> NotFound]
     ELSE [Value |-> Package(name), Error |-> NilErr]} \cup
    (IF done THEN {[Value |-> NoValue, Error |-> CtxErr]} ELSE {})

\* an element of the slice results is a pointer: the nil pointer is the
\* empty sequence, a pointer to a BulkResult the sequence of that one result
NilResult == <<>>

\* a variant that drops the error
FetchResultNoError(names, i, out) ==
    <<[Key |-> names[i], Value |-> out.Value, Error |-> NilErr]>>

\* a variant that builds the result under the first gem name
FetchResultFirstKey(names, i, out) ==
    <<[Key |-> names[1], Value |-> out.Value, Error |-> out.Error]>>

\* lines 89-93: the result of a fetch for gemNames[i]
FetchResult(names, i, out) ==
    <<[Key |-> names[i], Value |-> out.Value, Error |-> out.Error]>>

\* lines 81-84: the result of a job received with the context done
CtxResult(names, i, ctxErr) ==
    <<[Key |-> names[i], Value |-> NoValue, Error |-> ctxErr]>>

\* a variant that goes on to the fetch whatever the context says
CtxBranchNever(done) == FALSE

\* lines 78-86: the select takes ctx.Done() when the context is done, and
\* the default branch otherwise
CtxBranch(done) == done

\* a variant that stops the worker on every error
StopOnErrorAlways(options, err) == err # NilErr

\* line 96: !options.ContinueOnError && err != nil
StopOnError(options, err) == ~options.ContinueOnError /\ err # NilErr

IdleWorker == [pc |-> "range", job |-> 0, ctxAtRecv |-> FALSE,
               failAtRecv |-> FALSE, sawFail |-> FALSE]

\* a worker's fetch has returned an error
FailedSeen == \E w \in DOMAIN workers : workers[w].sawFail

\* the state before the call: the caller has its arguments, the repository
\* its gems
BulkInit ==
    /\ gemNames \in GemLists
    /\ bOpts \in BulkOptionsArgs
    /\ failOn \in SUBSET Range(gemNames)
    /\ bCtxDone = FALSE
    /\ bPc = "call"
    /\ bNext = 0
    /\ jobs = <<>>
    /\ jobsClosed = FALSE
    /\ workers = <<>>
    /\ results = <<>>

\* lines 67-71 and 273-285: the options, the slice of nil results, the
\* channel and the worker goroutines
BulkCall ==
    /\ bPc = "call"
    /\ bOpts' = OptionsOrDefault(bOpts)
    /\ results' = [i \in 1..Len(gemNames) |-> NilResult]
    /\ workers' = [w \in 1..NumWorkers(bOpts'.MaxConcurrency, Len(gemNames))
                        |-> IdleWorker]
    /\ jobs' = <<>>
    /\ bNext' = 1
    /\ bPc' = (IF WaitGroupAddPanics(NumWorkers(bOpts'.MaxConcurrency,
                                                Len(gemNames)))
               THEN "panic" ELSE "dispatch")
    /\ UNCHANGED <<gemNames, failOn, bCtxDone, jobsClosed>>
    /\ UNCHANGED <<cacheVars, retryVars, optVars, crVars>>

\* lines 288-290: jobs <- i; the channel has room for every job
Dispatch ==
    /\ bPc = "dispatch"
    /\ bNext <= Len(gemNames)
    /\ Len(jobs) < JobsCapacity(Len(gemNames))
    /\ jobs' = Append(jobs, bNext)
    /\ bNext' = bNext + 1
    /\ UNCHANGED <<gemNames, bOpts, failOn, bCtxDone, bPc, jobsClosed, workers,
                   results>>
    /\ UNCHANGED <<cacheVars, retryVars, optVars, crVars>>

\* line 291: close(jobs)
CloseJobs ==
    /\ bPc = "dispatch"
    /\ bNext > Len(gemNames)
    /\ jobsClosed' = TRUE
    /\ bPc' = "wait"
    /\ UNCHANGED <<gemNames, bOpts, failOn, bCtxDone, bNext, jobs, workers,
                   results>>
    /\ UNCHANGED <<cacheVars, retryVars, optVars, crVars>>

\* line 294 and line 106: wg.Wait() returns when every worker has returned,
\* and the call returns results
WaitDone ==
    /\ bPc = "wait"
    /\ \A w \in DOMAIN workers : workers[w].pc = "exit"
    /\ bPc' = "returned"
    /\ UNCHANGED <<gemNames, bOpts, failOn, bCtxDone, bNext, jobs, jobsClosed,
                   workers, results>>
    /\ UNCHANGED <<cacheVars, retryVars, optVars, crVars>>

\* line 77: for i := range jobs receives the next index, or ends the loop
\* (and the worker) when the channel is closed and empty
WorkerReceive(w) ==
    /\ workers[w].pc = "range"
    /\ \/ /\ jobs # <<>>
          /\ workers' = [workers EXCEPT ![w] =
                            [pc |-> "select", job |-> Head(jobs),
                             ctxAtRecv |-> bCtxDone, failAtRecv |-> FailedSeen,
                             sawFail |-> @.sawFail]]
          /\ jobs' = AfterReceive(jobs)
       \/ /\ jobs = <<>>
          /\ jobsClosed
          /\ workers' = [workers EXCEPT ![w].pc = "exit"]
          /\ jobs' = jobs
    /\ UNCHANGED <<gemNames, bOpts, failOn, bCtxDone, bPc, bNext, jobsClosed,
                   results>>
    /\ UNCHANGED <<cacheVars, retryVars, optVars, crVars>>

\* lines 78-88: the select: with the context done the worker stores the
\* context's error for its job and returns; otherwise it calls the
\* single-item method
WorkerSelect(w) ==
    /\ workers[w].pc = "select"
    /\ IF CtxBranch(bCtxDone)
       THEN /\ results' = [results EXCEPT ![workers[w].job] =
                              CtxResult(gemNames, workers[w].job, CtxErr)]
            /\ workers' = [workers EXCEPT ![w].pc = "exit"]
       ELSE /\ workers' = [workers EXCEPT ![w].pc = "fetch"]
            /\ results' = results
    /\ UNCHANGED <<gemNames, bOpts, failOn, bCtxDone, bPc, bNext, jobs,
                   jobsClosed>>
    /\ UNCHANGED <<cacheVars, retryVars, optVars, crVars>>

\* lines 88-98: the single-item method returns, the worker stores the result
\* and goes on with the loop, or returns on an error
WorkerFetched(w, out) ==
    /\ workers[w].pc = "fetch"
    /\ results' = [results EXCEPT ![workers[w].job] =
                      FetchResult(gemNames, workers[w].job, out)]
    /\ workers' = [workers EXCEPT ![w] =
                      [pc |-> IF StopOnError(bOpts, out.Error)
                              THEN "exit" ELSE "range",
                       job |-> @.job,
                       ctxAtRecv |-> @.ctxAtRecv,
                       failAtRecv |-> @.failAtRecv,
                       sawFail |-> @.sawFail \/ out.Error # NilErr]]
    /\ UNCHANGED <<gemNames, bOpts, failOn, bCtxDone, bPc, bNext, jobs,
                   jobsClosed>>
    /\ UNCHANGED <<cacheVars, retryVars, optVars, crVars>>

\* the caller cancels the context of the call, or its deadline passes
BulkCancel ==
    /\ ~bCtxDone
    /\ bPc \notin {"returned", "panic"}
    /\ bCtxDone' = TRUE
    /\ UNCHANGED <<gemNames, bOpts, failOn, bPc, bNext, jobs, jobsClosed,
                   workers, results>>
    /\ UNCHANGED <<cacheVars, retryVars, optVars, crVars>>

BulkNext ==
    \/ BulkCall
    \/ Dispatch
    \/ CloseJobs
    \/ WaitDone
    \/ \E w \in DOMAIN workers : WorkerReceive(w)
    \/ \E w \in DOMAIN workers : WorkerSelect(w)
    \/ \E w \in {v \in DOMAIN workers : workers[v].pc = "fetch"} :
          \E out \in FetchOutcomes(gemNames[workers[w].job], failOn, bCtxDone) :
              WorkerFetched(w, out)
    \/ BulkCancel

\* the steps of the goroutines of the call, without the caller's cancel
BulkProgramNext ==
    \/ BulkCall
    \/ Dispatch
    \/ CloseJobs
    \/ WaitDone
    \/ \E w \in DOMAIN workers : WorkerReceive(w)
    \/ \E w \in DOMAIN workers : WorkerSelect(w)
    \/ \E w \in {v \in DOMAIN workers : workers[v].pc = "fetch"} :
          \E out \in FetchOutcomes(gemNames[workers[w].job], failOn, bCtxDone) :
              WorkerFetched(w, out)

----------------------------------------------------------------------------
(* pkg/repository: CachedRepository *)

\* the base TTLs given to NewCachedRepository, in the time unit of the cache
BaseTTLs == {1, 2, 4}

\* the cache argument of NewCachedRepository: nil, or the pair (d, s) of a
\* store the caller built with NewMemoryCache(d, s)
NilCache == <<>>

\* the goroutines that write to the store: the cached repository, and
\* another user of a store the caller shares
CrCallers == {"repo", "other"}

\* a call of an operation: its name, its string and its integer parameters
\* (a time.Time is the pair of its seconds and nanoseconds)
NoOperation == [op |-> "none", strs |-> <<>>, ints |-> <<>>]
Operation(op, strs, ints) == [op |-> op, strs |-> strs, ints |-> ints]

\* the calls the callers make
Operations ==
    {Operation("GetPackage", <<"a">>, <<>>),
     Operation("GetGemVersions", <<"a">>, <<>>),
     Operation("GetGemLatestVersion", <<"a">>, <<>>),
     Operation("Downloads", <<>>, <<>>),
     Operation("LatestGems", <<>>, <<>>),
     Operation("GetReverseDependencies", <<"a">>, <<>>)} \cup
    {Operation("Search", <<"a">>, <<page>>) : page \in {49, 55296, 55297}} \cup
    {Operation("GetTimeFrameVersions", <<>>, <<0, nsec, 1, 0>>) :
        nsec \in {0, 1}} \cup
    {Operation("VersionDownloads", s, <<>>) :
        s \in {<<"a:b", "c">>, <<"a", "b:c">>}} \cup
    {Operation("GetDependencies", s, <<>>) : s \in {<<"a", "b">>, <<"a,b">>}}

\* the string a rune that is no valid code point converts to: U+FFFD
ReplacementChar == "<U+FFFD>"

\* string(page) of Search, line 75: the conversion of an integer to a string
\* yields the UTF-8 text of the code point with that number, here for the
\* code points of the digits, and U+FFFD for a number that is no code point
RuneString(r) ==
    IF r < 0 \/ r > 1114111 \/ (r >= 55296 /\ r <= 57343)
    THEN ReplacementChar
    ELSE IF r >= 48 /\ r <= 57 THEN ToString(r - 48)
    ELSE "<U+" \o ToString(r) \o ">"

\* t.Format(time.RFC3339) of a UTC time in the first seconds of 1970: the
\* layout has no fraction of a second
FormatRFC3339(sec, nsec) == "1970-01-01T00:00:0" \o ToString(sec) \o "Z"

\* strings.Join(elems, sep)
RECURSIVE Join(_, _)
Join(elems, sep) ==
    IF Len(elems) = 0 THEN ""
    ELSE IF Len(elems) = 1 THEN elems[1]
    ELSE elems[1] \o sep \o Join(Tail(elems), sep)

\* a variant of the key with the length of the first parameter in front
CacheKeyLengthPrefixed(call) ==
    ToString(Len(call.strs)) \o ":" \o call.op \o ":" \o Join(call.strs, ":")

\* the cacheKey each operation builds
CacheKey(call) ==
    CASE call.op = "GetPackage" -> "package:" \o call.strs[1]
      [] call.op = "Search" ->
            "search:" \o call.strs[1] \o ":" \o RuneString(call.ints[1])
      [] call.op = "GetGemVersions" -> "versions:" \o call.strs[1]
      [] call.op = "GetGemLatestVersion" -> "latest_version:" \o call.strs[1]
      [] call.op = "GetTimeFrameVersions" ->
            "timeframe:" \o FormatRFC3339(call.ints[1], call.ints[2]) \o ":"
                \o FormatRFC3339(call.ints[3], call.ints[4])
      [] call.op = "Downloads" -> "downloads"
      [] call.op = "VersionDownloads" ->
            "version_downloads:" \o call.strs[1] \o ":" \o call.strs[2]
      [] call.op = "GetDependencies" ->
            "dependencies:" \o Join(call.strs, ",")
      [] call.op = "LatestGems" -> "latest_gems"
      [] call.op = "GetReverseDependencies" ->
            "reverse_dependencies:" \o call.strs[1]

\* the type each operation asserts on the cached value
ResultType(op) ==
    CASE op = "GetPackage" -> "*models.PackageInformation"
      [] op = "Search" -> "[]*models.PackageInformation"
      [] op = "GetGemVersions" -> "[]*models.Version"
      [] op = "GetGemLatestVersion" -> "*models.LatestVersion"
      [] op = "GetTimeFrameVersions" -> "[]*models.Version"
      [] op = "Downloads" -> "*models.RepositoryDownloadCount"
      [] op = "VersionDownloads" -> "*models.VersionDownloadCount"
      [] op = "GetDependencies" -> "[]*models.DependencyInfo"
      [] op = "LatestGems" -> "[]*models.PackageInformation"
      [] op = "GetReverseDependencies" -> "[]string"

\* the division of a time.Duration by a constant truncates towards zero
Quot(a, b) == IF a >= 0 THEN a \div b ELSE -((-a) \div b)

\* a variant that stores every entry with the full base TTL
TTLForFull(op, ttl) == ttl

\* the duration each operation passes to SetWithExpiration
TTLFor(op, ttl) ==
    IF op \in {"Search", "GetGemLatestVersion", "Downloads", "VersionDownloads"}
    THEN Quot(ttl, 2)
    ELSE IF op = "LatestGems" THEN Quot(ttl, 4)
    ELSE ttl

\* a value in the store: its dynamic type and the call that produced it
NilValue == [type |-> "nil", from |-> NoOperation]
\* what the other user of the store puts into it
ForeignValue == [type |-> "string", from |-> NoOperation]
\* the keys the other user of the store writes
ForeignKeys == {CacheKey(Operation("GetPackage", <<"a">>, <<>>))}

\* what the wrapped repository returns for a call: its result, or an error
InnerErrors == {<<"not found">>}
InnerOutcomes(call) ==
    {[value |-> [type |-> ResultType(call.op), from |-> call],
      err |-> NilErr]} \cup
    {[value |-> NilValue, err |-> e] : e \in InnerErrors}

\* a variant of the hit test without the type assertion
CacheHitUntyped(call) == Get(CacheKey(call)).found

\* a variant that never takes the cached value
CacheHitNever(call) == FALSE

\* lines 54-59 (and their like in every operation): the entry is found by
\* Get and has the type the operation asserts
CacheHit(call) ==
    /\ Get(CacheKey(call)).found
    /\ Get(CacheKey(call)).value.type = ResultType(call.op)

\* a variant that passes on an error of its own
InnerErrorReturnWrapped(err) == <<"cache">> \o err

\* lines 62-65: the error of the wrapped repository is returned as it is
InnerErrorReturn(err) == err

\* a variant of GetCacheStats that counts the entries that have not expired
GetCacheStatsLive == CountLive

\* GetCacheStats, lines 290-292: the count of the store
NoStats == -1
GetCacheStats == Count

\* NewCachedRepository(repo, ttl, cache), lines 35-47
NewCachedRepository(ttl, cache) ==
    /\ IF cache = NilCache
       THEN NewMemoryCache(ttl, ttl * 2, CrCallers)
       ELSE NewMemoryCache(cache[1], cache[2], CrCallers)
    /\ sharedCache = (cache # NilCache)
    /\ defaultTTL = ttl
    /\ stopCleanupCh = "open"
    /\ crPanicked = FALSE
    /\ crPc = "idle"
    /\ crCall = NoOperation
    /\ innerCalls = 0
    /\ crLog = <<>>
    /\ crOps = 0

CachedInitOver(ttls, caches) ==
    \E ttl \in ttls, cache \in caches : NewCachedRepository(ttl, cache)

\* the record of a returned operation: the call, the value and the error
\* returned, whether the wrapped repository was called, and for
\* GetCacheStats the count returned
Returns(call, value, err, inner, count) ==
    [call |-> call, value |-> value, err |-> err, inner |-> inner,
     count |-> count]

\* an operation up to its inner call: the key is looked up; on a hit of the
\* asserted type the value is returned, otherwise the wrapped repository is
\* called
CrBegin(call) ==
    /\ ~crPanicked
    /\ crPc = "idle"
    /\ crOps < MaxCalls
    /\ crOps' = crOps + 1
    /\ IF CacheHit(call)
       THEN /\ crLog' = Append(crLog, Returns(call, Get(CacheKey(call)).value,
                                              NilErr, FALSE, NoStats))
            /\ UNCHANGED <<crPc, crCall, innerCalls>>
       ELSE /\ crPc' = "inner"
            /\ crCall' = call
            /\ innerCalls' = innerCalls + 1
            /\ UNCHANGED crLog
    /\ UNCHANGED <<sharedCache, defaultTTL, stopCleanupCh, crPanicked>>
    /\ UNCHANGED <<cacheVars, retryVars, optVars, bulkVars>>

\* the wrapped repository returns: an error is returned to the caller; a
\* result goes to SetWithExpiration, which computes the expiration (lines
\* 114-123 of cache.go) and waits for the write lock
CrInner(out) ==
    /\ crPc = "inner"
    /\ IF out.err # NilErr
       THEN /\ crLog' = Append(crLog, Returns(crCall, NilValue,
                                              InnerErrorReturn(out.err), TRUE,
                                              NoStats))
            /\ crPc' = "idle"
            /\ crCall' = NoOperation
            /\ UNCHANGED <<callPc, callArgs>>
       ELSE /\ callPc' = [callPc EXCEPT !["repo"] = "lock"]
            /\ callArgs' = [callArgs EXCEPT !["repo"] =
                    [key |-> CacheKey(crCall), value |-> out.value,
                     d |-> TTLFor(crCall.op, defaultTTL),
                     expiration |->
                         ComputeExpiration(TTLFor(crCall.op, defaultTTL)),
                     setTime |-> now]]
            /\ crPc' = "store"
            /\ UNCHANGED <<crLog, crCall>>
    /\ ret' = NoRet
    /\ UNCHANGED <<now, defaultExpiration, cleanupInterval, items, closed,
                   stopCleanup, panicked, sweepPc, sweepNow, tickerC, nextTick,
                   written>>
    /\ UNCHANGED <<sharedCache, defaultTTL, stopCleanupCh, crPanicked,
                   innerCalls, crOps>>
    /\ UNCHANGED <<retryVars, optVars, bulkVars>>

\* SetWithExpiration stores the result under the write lock (lines 125-132
\* of cache.go) and the operation returns it
CrStore ==
    /\ crPc = "store"
    /\ items' = StoreItem(callArgs["repo"].key, callArgs["repo"].value,
                          callArgs["repo"].expiration)
    /\ written' = [k \in DOMAIN written \cup {callArgs["repo"].key} |->
                     IF k = callArgs["repo"].key
                     THEN WriteRecord(callArgs["repo"])
                     ELSE written[k]]
    /\ ret' = [NoRet EXCEPT !.op = "Set", !.key = callArgs["repo"].key,
                            !.again = callArgs["repo"].key \in DOMAIN items]
    /\ callPc' = [callPc EXCEPT !["repo"] = "idle"]
    /\ callArgs' = [callArgs EXCEPT !["repo"] = NoArgs]
    /\ crLog' = Append(crLog, Returns(crCall, callArgs["repo"].value, NilErr,
                                      TRUE, NoStats))
    /\ crPc' = "idle"
    /\ crCall' = NoOperation
    /\ UNCHANGED <<now, defaultExpiration, cleanupInterval, closed, stopCleanup,
                   panicked, sweepPc, sweepNow, tickerC, nextTick>>
    /\ UNCHANGED <<sharedCache, defaultTTL, stopCleanupCh, crPanicked,
                   innerCalls, crOps>>
    /\ UNCHANGED <<retryVars, optVars, bulkVars>>

\* the other user of a shared store sets a value of its own under a key
ForeignSet(key) ==
    /\ sharedCache
    /\ CallSet("other", key, ForeignValue)

\* the other user's Set stores its value
ForeignCommit == SetCommit("other")

\* ClearCache(), lines 284-286
ClearCache ==
    /\ ~crPanicked
    /\ CallClear

\* GetCacheStats()
CallGetCacheStats ==
    /\ ~crPanicked
    /\ crOps < MaxCalls
    /\ crOps' = crOps + 1
    /\ crLog' = Append(crLog, Returns(Operation("GetCacheStats", <<>>, <<>>),
                                      NilValue, NilErr, FALSE, GetCacheStats))
    /\ UNCHANGED <<sharedCache, defaultTTL, stopCleanupCh, crPanicked, crPc,
                   crCall, innerCalls>>
    /\ UNCHANGED <<cacheVars, retryVars, optVars, bulkVars>>

\* Close(), lines 278-280: close(c.stopCleanupCh); closing a closed channel
\* panics
CachedClose ==
    /\ ~crPanicked
    /\ crOps < MaxCalls
    /\ crOps' = crOps + 1
    /\ IF stopCleanupCh = "closed"
       THEN crPanicked' = TRUE /\ UNCHANGED stopCleanupCh
       ELSE stopCleanupCh' = "closed" /\ UNCHANGED crPanicked
    /\ UNCHANGED <<sharedCache, defaultTTL, crPc, crCall, innerCalls, crLog>>
    /\ UNCHANGED <<cacheVars, retryVars, optVars, bulkVars>>

\* the calls ops of the operations, with the clock standing still and no
\* other goroutine running
CachedCallsNext(ops) ==
    \/ \E call \in ops : CrBegin(call)
    \/ crPc = "inner" /\ \E out \in InnerOutcomes(crCall) : CrInner(out)
    \/ CrStore

\* the calls ops of the operations, the calls of ClearCache, GetCacheStats
\* and Close, the other user of the store, the clock and the sweep of the
\* store
CachedNextOver(ops) ==
    \/ \E call \in ops : CrBegin(call)
    \/ crPc = "inner" /\ \E out \in InnerOutcomes(crCall) : CrInner(out)
    \/ CrStore
    \/ \E key \in ForeignKeys : ForeignSet(key)
    \/ ForeignCommit
    \/ ClearCache
    \/ CallGetCacheStats
    \/ CachedClose
    \/ AdvanceTime
    \/ SweepStart
    \/ TickerFire
    \/ SweepTick
    \/ SweepDelete

----------------------------------------------------------------------------
(* Specifications *)

\* the retry loop in its initial state, but for its options
RetryLocalsUnused ==
    /\ rPc = "loop"
    /\ attempt = 0
    /\ lastErr = NilErr
    /\ lastResp = ZeroResp
    /\ waitTime = NoWait
    /\ ctxDone = FALSE
    /\ rRet = NoReturn
    /\ sendLog = <<>>

RetryUnused ==
    /\ rOpts = [MaxAttempts |-> 0, WaitTime |-> 0, MaxWaitTime |-> 2,
                UseExponentialBackoff |-> FALSE, ShouldRetry |-> "default"]
    /\ RetryLocalsUnused

\* a cache nobody uses
CacheUnused ==
    /\ now = 1
    /\ defaultExpiration = Hour
    /\ cleanupInterval = 0
    /\ items = EmptyMap
    /\ closed = FALSE
    /\ stopCleanup = "open"
    /\ panicked = FALSE
    /\ callPc = [c \in {} |-> "idle"]
    /\ callArgs = [c \in {} |-> NoArgs]
    /\ sweepPc = "off"
    /\ sweepNow = 0
    /\ tickerC = FALSE
    /\ nextTick = 0
    /\ ret = NoRet
    /\ written = EmptyMap

\* no call of a ShouldRetry function
OptionsUnused == srRet = NoCall

\* no bulk call
BulkUnused ==
    /\ gemNames = <<>>
    /\ bOpts = NilOptions
    /\ failOn = {}
    /\ bCtxDone = FALSE
    /\ bPc = "call"
    /\ bNext = 0
    /\ jobs = <<>>
    /\ jobsClosed = FALSE
    /\ workers = <<>>
    /\ results = <<>>

\* no cached repository
CachedUnused ==
    /\ sharedCache = FALSE
    /\ defaultTTL = 0
    /\ stopCleanupCh = "open"
    /\ crPanicked = FALSE
    /\ crPc = "idle"
    /\ crCall = NoOperation
    /\ innerCalls = 0
    /\ crLog = <<>>
    /\ crOps = 0

\* the cache alone
CacheIdle == RetryUnused /\ OptionsUnused /\ BulkUnused /\ CachedUnused

\* the retry loop alone
RetryIdle == CacheUnused /\ OptionsUnused /\ BulkUnused /\ CachedUnused

\* the retry options alone
OptionsIdle == CacheUnused /\ RetryLocalsUnused /\ BulkUnused /\ CachedUnused

\* the bulk call alone
BulkIdle == CacheUnused /\ RetryUnused /\ OptionsUnused /\ CachedUnused

\* the cached repository alone
CachedIdle == RetryUnused /\ OptionsUnused /\ BulkUnused

CacheSpecInit == CacheInit /\ CacheIdle
CacheSpecNext == CacheNext
CacheSpec == CacheSpecInit /\ [][CacheSpecNext]_vars

\* the scheduling the sweep relies on: time passes, the ticker ticks and the
\* sweep goroutine runs
CacheFairness ==
    /\ WF_vars(AdvanceTime)
    /\ WF_vars(SweepStart)
    /\ WF_vars(TickerFire)
    /\ WF_vars(SweepTick)
    /\ WF_vars(SweepDelete)

\* a cache with a sweep, one key and fair scheduling
SweepWrites == {<<"k1", "v1">>}
SweepTTLs == {-1, 0, 1}
SweepSpecInit == NewMemoryCache(1, 1, Callers) /\ CacheIdle
SweepSpecNext == CacheNextOver(SweepWrites, SweepTTLs)
SweepSpec == SweepSpecInit /\ [][SweepSpecNext]_vars /\ CacheFairness

\* a cache with a sweep and two callers that write the same key
RaceCallers == {"c1", "c2"}
RaceWrites == {<<"k1", "v1">>, <<"k1", "v2">>}
RaceTTLs == {-1, 1}
RaceSpecInit == NewMemoryCache(1, 1, RaceCallers) /\ CacheIdle
RaceSpecNext == CacheNextOver(RaceWrites, RaceTTLs)
RaceSpec == RaceSpecInit /\ [][RaceSpecNext]_vars

\* a cached repository with two operations and its callers; its store is
\* its own, with a sweep, or one without a sweep that it shares with
\* another user
CachedOperations ==
    {Operation("GetPackage", <<"a">>, <<>>),
     Operation("Search", <<"a">>, <<49>>)}
CachedSpecInit == CachedInitOver({1}, {NilCache, <<1, 0>>}) /\ CachedIdle
CachedSpecNext == CachedNextOver(CachedOperations)
CachedSpec == CachedSpecInit /\ [][CachedSpecNext]_vars

\* every operation of a cached repository whose store has no sweep, while
\* the clock stands still
CachedCallsSpecInit == CachedInitOver(BaseTTLs, {<<1, 0>>}) /\ CachedIdle
CachedCallsSpecNext == CachedCallsNext(Operations)
CachedCallsSpec == CachedCallsSpecInit /\ [][CachedCallsSpecNext]_vars

\* a stable, a half-share and a quarter-share operation under base TTLs down
\* to the smallest, zero and negative ones, with the store the constructor
\* builds and with stores of the caller
ShareOperations ==
    {Operation("GetPackage", <<"a">>, <<>>),
     Operation("Search", <<"a">>, <<49>>),
     Operation("LatestGems", <<>>, <<>>)}
ShareTTLs == (-2)..4
ShareCaches == {NilCache, <<1, 0>>, <<4, 0>>, <<0, 0>>}
SharesSpecInit == CachedInitOver(ShareTTLs, ShareCaches) /\ CachedIdle
SharesSpecNext == CachedCallsNext(ShareOperations)
SharesSpec == SharesSpecInit /\ [][SharesSpecNext]_vars

RetrySpecInit == RetryInit /\ RetryIdle
RetrySpecNext == RetryNext
RetrySpec == RetrySpecInit /\ [][RetrySpecNext]_vars

BackoffSpecInit == BackoffInit /\ RetryIdle
BackoffSpecNext == BackoffNext
BackoffSpec == BackoffSpecInit /\ [][BackoffSpecNext]_vars

OptionsSpecInit == OptionsInit /\ OptionsIdle
OptionsSpecNext == OptionsNext
OptionsSpec == OptionsSpecInit /\ [][OptionsSpecNext]_vars

BulkSpecInit == BulkInit /\ BulkIdle
BulkSpecNext == BulkNext
BulkSpec == BulkSpecInit /\ [][BulkSpecNext]_vars

----------------------------------------------------------------------------
(* Properties of the cache *)

\* the entry stored under k has an expiration, and it lies in the past
StoredExpired(k) ==
    k \in DOMAIN items /\ items[k].expiration # 0 /\ items[k].expiration < now

\* C1: a Get never returns found=true for an entry whose expiration is set
\* and lies in the past, with or without a sweep, closed or not: a Get that
\* just returned found=true returned for a stored key whose expiration is
\* unset or not before the present time.
C1_GetNeverReturnsExpired ==
    (ret.op = "Get" /\ ret.found) =>
        (ret.key \in DOMAIN items /\ ~StoredExpired(ret.key))

\* a Get of a stored entry whose expiration has passed returned found=false,
\* in a cache without a sweep
C1_Witness ==
    /\ ret.op = "Get"
    /\ StoredExpired(ret.key)
    /\ ~ret.found
    /\ cleanupInterval <= 0

\* C2 as stated: for an entry written with a ttl d > 0 at setTime and not
\* overwritten, deleted or cleared since, Get returns found=true exactly
\* when now < setTime + d.
C2_Original ==
    (ret.op = "Get" /\ ret.key \in DOMAIN written /\ written[ret.key].sign = 1) =>
        (ret.found <=> now < written[ret.key].expires)

\* C2 as amended: for an entry written with a ttl d > 0 at setTime and not
\* overwritten, deleted or cleared since, Get returns found=true exactly
\* when now <= setTime + d, with the value written.
C2_GetUntilDeadline ==
    (ret.op = "Get" /\ ret.key \in DOMAIN written /\ written[ret.key].sign = 1) =>
        /\ ret.found <=> now <= written[ret.key].expires
        /\ ret.found => ret.value = written[ret.key].value

\* a Get at the very instant setTime + d found the entry
C2_Witness ==
    /\ ret.op = "Get"
    /\ ret.key \in DOMAIN written
    /\ written[ret.key].sign = 1
    /\ now = written[ret.key].expires
    /\ ret.found

\* C3: an entry written with a ttl < 0 never expires: as long as it is not
\* overwritten, deleted or cleared it stays stored, with no expiration, and
\* every Get finds it with its value, at every time and after every sweep.
C3_NeverExpire ==
    \A k \in DOMAIN written :
        written[k].sign = -1 =>
            /\ k \in DOMAIN items
            /\ items[k].expiration = 0
            /\ Get(k) = [value |-> written[k].value, found |-> TRUE]
            /\ (ret.op = "Get" /\ ret.key = k) =>
                    (ret.found /\ ret.value = written[k].value)

\* a Get found a never-expiring entry after the default ttl has passed and
\* while a sweep that has removed another entry is running
C3_Witness ==
    /\ ret.op = "Get"
    /\ ret.found
    /\ ret.key \in DOMAIN written
    /\ written[ret.key].sign = -1
    /\ now > 1 + defaultExpiration
    /\ sweepPc = "select"
    /\ \E k \in DOMAIN written : k \notin DOMAIN items

\* C4: a write always overwrites: the stored entry of a key is the one of
\* the most recent write committed for it, value and expiration, and a Get
\* before that expiration returns that value.
C4_LastWriteWins ==
    /\ \A k \in DOMAIN items :
            /\ k \in DOMAIN written
            /\ items[k].value = written[k].value
            /\ items[k].expiration = written[k].expires
    /\ (ret.op = "Get" /\ ret.key \in DOMAIN written
          /\ (written[ret.key].expires = 0 \/ now <= written[ret.key].expires)) =>
            (ret.found /\ ret.value = written[ret.key].value)

\* a write has just replaced an entry of its key by one with another value
\* and no expiration, and a Get of the key returns the new value
C4_Witness ==
    /\ ret.op = "Set"
    /\ ret.again
    /\ items[ret.key] = [value |-> "v2", expiration |-> 0]
    /\ Get(ret.key) = [value |-> "v2", found |-> TRUE]
    /\ now > 1

\* C5: Count() is the number of entries stored, expired ones included: what
\* a Count returns is the size of the map; a write of a new key adds one, a
\* write of a stored key and the passage of time leave it, a Delete of a
\* stored key takes one away, and it is 0 after Clear.
C5_CountIsStorageCount ==
    /\ [](ret.op = "Count" => ret.count = Cardinality(DOMAIN items))
    /\ [][/\ \A c \in DOMAIN callPc :
                SetCommit(c) =>
                    Count' = IF callArgs[c].key \in DOMAIN items
                             THEN Count ELSE Count + 1
          /\ AdvanceTime => Count' = Count
          /\ \A k \in Keys :
                CallDelete(k) =>
                    Count' = IF k \in DOMAIN items THEN Count - 1 ELSE Count
          /\ CallClear => Count' = 0]_vars

\* a Count returned 2 while one of the two entries was expired
C5_Witness ==
    /\ ret.op = "Count"
    /\ ret.count = 2
    /\ \E k \in DOMAIN items : StoredExpired(k)

\* C6: Close is idempotent and leaves the entries alone: no Close panics,
\* a Close does not change the stored entries, and after a Close a write
\* stores its entry, a Delete removes the key, a Clear empties the map and
\* a Get finds what is stored and not expired.
C6_CloseIdempotent ==
    /\ [](~panicked)
    /\ [][CallClose => (items' = items /\ closed')]_vars
    /\ [][closed =>
            /\ \A c \in DOMAIN callPc :
                  SetCommit(c) =>
                      /\ callArgs[c].key \in DOMAIN items'
                      /\ items'[callArgs[c].key].value = callArgs[c].value
            /\ \A k \in Keys :
                  /\ CallDelete(k) => k \notin DOMAIN items'
                  /\ CallGet(k) =>
                        (ret'.found <=> (k \in DOMAIN items /\ ~StoredExpired(k)))
            /\ CallClear => items' = EmptyMap]_vars

\* a second Close returned, on a cache with a sweep that holds an entry
C6_Witness ==
    /\ ret.op = "Close"
    /\ ret.again
    /\ cleanupInterval > 0
    /\ DOMAIN items # {}
    /\ ~panicked

\* the ticker of the sweep goroutine exists and has a tick in the channel or
\* one to come before the clock of the model stops
TickAhead ==
    /\ sweepPc \in {"select", "deleteExpired"}
    /\ (tickerC \/ nextTick <= MaxTime)

\* C7: in a cache with a sweep that is not closed, an entry whose expiration
\* has passed is eventually removed from the map by the sweep (or replaced
\* by a write, or deleted); the ticks are never late, so the sweep that
\* removes it is the one of the first tick after the expiration.
C7_SweepEventuallyEvicts ==
    /\ \A k \in Keys :
          (StoredExpired(k) /\ cleanupInterval > 0 /\ ~closed /\ TickAhead)
              ~> (closed \/ ~StoredExpired(k))
    /\ [](sweepPc \in {"select", "deleteExpired"} =>
              nextTick <= now + cleanupInterval)
    /\ [][SweepDelete =>
            \A k \in DOMAIN items :
                (items[k].expiration # 0 /\ items[k].expiration < sweepNow)
                    => k \notin DOMAIN items']_vars

\* the sweep has removed an expired entry that nobody deleted
C7_Witness ==
    /\ cleanupInterval > 0
    /\ ~closed
    /\ \E k \in DOMAIN written :
          /\ k \notin DOMAIN items
          /\ written[k].expires # 0
          /\ written[k].expires < now

----------------------------------------------------------------------------
(* Properties of the retry loop *)

RDone == rPc = "done"
Failed(i) == sendLog[i].err # NilErr

\* C8: with MaxAttempts = m >= 1, no cancellation and a request that fails
\* on every attempt with a failure ShouldRetry takes for retryable, the call
\* makes exactly m attempts and returns the "max retry attempts reached"
\* error.
C8_RetryBound ==
    (/\ RDone
     /\ rOpts.MaxAttempts >= 1
     /\ ~ctxDone
     /\ \A i \in 1..Len(sendLog) :
            Failed(i) /\ ShouldRetry(rOpts.ShouldRetry, 0, sendLog[i].err)) =>
        /\ Len(sendLog) = rOpts.MaxAttempts
        /\ Len(rRet.err) >= 2
        /\ rRet.err[1] = "max retry attempts reached"

\* three failed attempts of three, and the error of exhaustion
C8_Witness ==
    /\ RDone
    /\ ~ctxDone
    /\ rOpts.MaxAttempts = 3
    /\ Len(sendLog) = 3
    /\ \A i \in 1..3 : Failed(i)
    /\ rRet.err[1] = "max retry attempts reached"

\* C9 as stated: a failed attempt that the policy's ShouldRetry takes for
\* non-retryable is the last attempt of the call.
C9_NoRetryOnNonRetryable ==
    \A i \in 1..Len(sendLog) :
        (Failed(i) /\ ~ShouldRetry(rOpts.ShouldRetry, 0, sendLog[i].err)) =>
            (i = Len(sendLog) /\ rPc # "wait" /\ rPc # "send")

\* C10: success never retries: a successful attempt is the last one, the
\* call has returned its response with a nil error, and the first attempt
\* is made without a wait before it.
C10_SuccessNeverRetries ==
    /\ \A j \in 1..Len(sendLog) :
          ~Failed(j) =>
              /\ j = Len(sendLog)
              /\ RDone
              /\ rRet = [resp |-> sendLog[j].resp, err |-> NilErr]
    /\ Len(sendLog) >= 1 => sendLog[1].wait = NoWait
    /\ Len(sendLog) = 0 => rPc # "wait"

\* the second attempt succeeded, after a wait, and the call returned it
C10_Witness ==
    /\ RDone
    /\ Len(sendLog) = 2
    /\ Failed(1)
    /\ ~Failed(2)
    /\ sendLog[2].wait >= 0
    /\ rRet = [resp |-> "body", err |-> NilErr]

\* C11: a cancellation of the context that comes while the call waits in
\* the select before an attempt wakes the call with the case ctx.Done()
\* taken; the call's only step from there is the return of the zero
\* response and of ctx.Err() itself, with no request sent, and a call that
\* has returned sends no request.
C11_CancelDuringWaitAborts ==
    [][/\ (rPc = "wait" /\ ~ctxDone /\ ctxDone') => rPc' = "cancelled"
       /\ rPc = "cancelled" =>
              /\ rPc' = "done"
              /\ rRet' = [resp |-> ZeroResp, err |-> CtxErr]
              /\ sendLog' = sendLog
       /\ rPc = "done" => (rPc' = "done" /\ sendLog' = sendLog)]_vars

\* the context was cancelled during the wait of a positive length that
\* follows a first failed attempt, with attempts left
C11_Witness ==
    /\ rPc = "cancelled"
    /\ ctxDone
    /\ waitTime > 0
    /\ Len(sendLog) = 1
    /\ Failed(1)
    /\ rOpts.MaxAttempts > 1

\* the call made MaxAttempts >= 1 attempts and every one of them failed
Exhausted ==
    /\ RDone
    /\ rOpts.MaxAttempts >= 1
    /\ Len(sendLog) = rOpts.MaxAttempts
    /\ \A i \in 1..Len(sendLog) : Failed(i)

MinDuration(a, b) == IF a < b THEN a ELSE b

\* the wait the call is to make before its k-th attempt, k > 1
Delay(k) ==
    IF rOpts.UseExponentialBackoff
    THEN MinDuration(rOpts.WaitTime * 2 ^ (k - 2), rOpts.MaxWaitTime)
    ELSE rOpts.WaitTime

----------------------------------------------------------------------------
(* Properties of the default ShouldRetry function *)

RetryStatuses == {429, 500, 502, 503, 504}

\* C14: the default ShouldRetry function returns true for every non-nil
\* error, whatever the response; with a nil error it returns true for a
\* response with status 429, 500, 502, 503 or 504 and false for every
\* other status and for a nil response.
C14_DefaultShouldRetry ==
    srRet.f = "default" =>
        /\ srRet.err # NilErr => srRet.result
        /\ (srRet.err = NilErr /\ srRet.status \in RetryStatuses) =>
               srRet.result
        /\ (srRet.err = NilErr /\ srRet.status \notin RetryStatuses) =>
               ~srRet.result

\* the default function was called with a 503 and no error, and said yes
C14_Witness ==
    /\ srRet.f = "default"
    /\ srRet.status = 503
    /\ srRet.err = NilErr
    /\ srRet.result

----------------------------------------------------------------------------
(* Properties of the bulk operations *)

Returned == bPc = "returned"
Populated(i) == results[i] # NilResult
\* the indices whose gem the repository has no package for
FailingIndices == {i \in 1..Len(gemNames) : gemNames[i] \in failOn}

\* C15: a bulk call with ContinueOnError = true whose context is not
\* cancelled returns, for every MaxConcurrency >= 1 (1, N and 2N among
\* them), every pattern of failing gems and every interleaving, a slice of
\* N results whose i-th element is a result for the i-th gem name: one
\* result per input position.
C15_BulkCompleteness ==
    (Returned /\ bOpts.ContinueOnError /\ bOpts.MaxConcurrency >= 1
        /\ ~bCtxDone) =>
        /\ Len(results) = Len(gemNames)
        /\ \A i \in 1..Len(gemNames) :
              Populated(i) /\ results[i][1].Key = gemNames[i]

\* a call for two gems with one worker returned: the first gem failed, the
\* second did not
C15_Witness ==
    /\ Returned
    /\ ~bCtxDone
    /\ bOpts = [MaxConcurrency |-> 1, ContinueOnError |-> TRUE]
    /\ gemNames = <<"a", "b">>
    /\ results[1] = <<[Key |-> "a", Value |-> NoValue, Error |-> NotFound]>>
    /\ results[2] = <<[Key |-> "b", Value |-> Package("b"), Error |-> NilErr]>>

\* C16 as stated: a bulk call (ContinueOnError = true, MaxConcurrency >= 1)
\* returns a slice whose every element is a result, with the outcome of the
\* fetch or the error of the context, also when the context was cancelled
\* during the call.
C16_EverySlotPopulated ==
    (Returned /\ bOpts.ContinueOnError /\ bOpts.MaxConcurrency >= 1) =>
        \A i \in 1..Len(gemNames) :
            /\ Populated(i)
            /\ results[i][1].Error \in {NilErr, NotFound, CtxErr}

\* C17: the results keep the index: an element of results that is not nil
\* holds, at index i, the key gemNames[i] and the value and error of a fetch
\* of gemNames[i] (or, of a job received with the context done, the
\* context's error), in every state, whatever the order in which the
\* workers finish.
C17_IndexPreserving ==
    \A i \in DOMAIN results :
        Populated(i) =>
            LET r == results[i][1] IN
            /\ r.Key = gemNames[i]
            /\ \/ /\ gemNames[i] \notin failOn
                  /\ r.Value = Package(gemNames[i])
                  /\ r.Error = NilErr
               \/ /\ gemNames[i] \in failOn
                  /\ r.Value = NoValue
                  /\ r.Error = NotFound
               \/ /\ bCtxDone
                  /\ r.Value = NoValue
                  /\ r.Error = CtxErr

\* the second gem has its result before the first
C17_Witness ==
    /\ gemNames = <<"a", "b">>
    /\ Len(results) = 2
    /\ ~Populated(1)
    /\ \E w \in DOMAIN workers :
          workers[w].pc = "fetch" /\ workers[w].job = 1
    /\ results[2] = <<[Key |-> "b", Value |-> Package("b"), Error |-> NilErr]>>

\* C18 as stated: with ContinueOnError = false no worker starts a fetch for
\* a job it received after a worker's fetch had returned an error.
C18_NoFetchAfterFailure ==
    \A w \in DOMAIN workers :
        (~bOpts.ContinueOnError /\ workers[w].pc = "fetch") =>
            ~workers[w].failAtRecv

C20_NoFetchAfterCancel ==
    \A w \in DOMAIN workers :
        (workers[w].job # 0 /\ workers[w].ctxAtRecv) =>
            /\ workers[w].pc \in {"select", "exit"}
            /\ workers[w].pc = "exit" =>
                  results[workers[w].job] =
                      <<[Key |-> gemNames[workers[w].job], Value |-> NoValue,
                         Error |-> CtxErr]>>

\* a worker received the second job after the cancellation and returned
\* with the context's error for it, the first job fetched before
C20_Witness ==
    /\ bCtxDone
    /\ gemNames = <<"a", "b">>
    /\ Len(results) = 2
    /\ results[1] = <<[Key |-> "a", Value |-> Package("a"), Error |-> NilErr]>>
    /\ results[2] = <<[Key |-> "b", Value |-> NoValue, Error |-> CtxErr]>>
    /\ \E w \in DOMAIN workers :
          /\ workers[w].pc = "exit"
          /\ workers[w].job = 2
          /\ workers[w].ctxAtRecv

\* C21 as stated: a bulk call for N > 0 gems whose options have a
\* MaxConcurrency <= 0 neither panics nor runs without a worker, and when
\* it has returned with ContinueOnError = true and a context that was not
\* cancelled, every gem has its result.
C21_NonPositiveConcurrencyIsOne ==
    (bPc # "call" /\ bOpts.MaxConcurrency <= 0 /\ Len(gemNames) > 0) =>
        /\ bPc # "panic"
        /\ Len(workers) >= 1
        /\ (Returned /\ bOpts.ContinueOnError /\ ~bCtxDone) =>
               \A i \in 1..Len(gemNames) : Populated(i)

\* C30 as stated: once Close has returned, no step of the sweep goroutine
\* changes the stored entries; they change only through SetWithExpiration
\* (and Set), Delete and Clear.
C30_NoEvictionAfterClose ==
    [][(closed /\ items' # items) =>
            \/ \E c \in DOMAIN callPc : SetCommit(c)
            \/ \E k \in DOMAIN items : CallDelete(k)
            \/ CallClear]_vars

----------------------------------------------------------------------------
(* CachedRepository *)

\* the last operation that returned
LastReturn == crLog[Len(crLog)]

\* in the store its at the time t, the key of the call holds an entry that
\* has not expired and whose value has the type the operation returns
EntryHits(call, its, t) ==
    /\ CacheKey(call) \in DOMAIN its
    /\ ~(its[CacheKey(call)].expiration # 0
            /\ its[CacheKey(call)].expiration < t)
    /\ its[CacheKey(call)].value.type = ResultType(call.op)

\* C22: an operation that finds under its key an unexpired entry of the
\* type it returns, returns the stored value and a nil error and does not
\* call the wrapped repository; and the entry a successful call stores is
\* such an entry for the identical call, as long as it has not expired.
C22_CacheHitSkipsInner ==
    [][/\ \A call \in Operations :
            (CrBegin(call) /\ EntryHits(call, items, now)) =>
                /\ innerCalls' = innerCalls
                /\ crPc' = "idle"
                /\ crLog' = Append(crLog,
                        Returns(call, items[CacheKey(call)].value, NilErr,
                                FALSE, NoStats))
       /\ CrStore =>
            \/ EntryHits(crCall, items', now')
            \/ IsExpired(items'[CacheKey(crCall)], now')]_vars

\* a call was answered by the wrapped repository and the identical call
\* after it from the store
C22_Witness ==
    /\ Len(crLog) = 2
    /\ crLog[1].inner /\ crLog[1].err = NilErr
    /\ crLog[2].call = crLog[1].call
    /\ ~crLog[2].inner /\ crLog[2].err = NilErr
    /\ crLog[2].value = crLog[1].value
    /\ innerCalls = 1

\* C23: when the wrapped repository returns an error, the operation returns
\* that error, the store stays as it is and holds no entry that the
\* identical call would take; a call that finds no such entry calls the
\* wrapped repository.
C23_ErrorsNotCached ==
    [][/\ (crPc = "inner" /\ crPc' = "idle") =>
            /\ items' = items
            /\ crLog' = Append(crLog, crLog'[Len(crLog')])
            /\ crLog'[Len(crLog')].call = crCall
            /\ crLog'[Len(crLog')].err \in InnerErrors
            /\ crLog'[Len(crLog')].value = NilValue
            /\ ~EntryHits(crCall, items', now')
       /\ \A call \in Operations :
            (CrBegin(call) /\ ~EntryHits(call, items, now)) =>
                /\ innerCalls' = innerCalls + 1
                /\ crPc' = "inner"
                /\ crCall' = call]_vars

\* a call failed, and the identical call after it reached the wrapped
\* repository and failed again
C23_Witness ==
    /\ Len(crLog) = 2
    /\ crLog[1].inner /\ crLog[1].err # NilErr
    /\ crLog[2].call = crLog[1].call
    /\ crLog[2].inner /\ crLog[2].err # NilErr
    /\ innerCalls = 2
    /\ items = EmptyMap

\* C24: an operation that finds under its key a value of another type does
\* not panic and calls the wrapped repository, and the result of a
\* successful call replaces the entry under the key.
C24_WrongTypeIsMiss ==
    [][/\ \A call \in Operations :
            (CrBegin(call) /\ CacheKey(call) \in DOMAIN items
                /\ items[CacheKey(call)].value.type # ResultType(call.op)) =>
                /\ crPc' = "inner"
                /\ crCall' = call
                /\ innerCalls' = innerCalls + 1
                /\ crLog' = crLog
                /\ ~crPanicked'
       /\ CrStore =>
            /\ items'[CacheKey(crCall)].value.type = ResultType(crCall.op)
            /\ items'[CacheKey(crCall)].value.from = crCall
            /\ crLog'[Len(crLog')].value = items'[CacheKey(crCall)].value]_vars

\* the result of GetPackage has just replaced an entry under its key, in a
\* store that only held the other user's value
C24_Witness ==
    /\ Len(crLog) = 1
    /\ crLog[1].inner /\ crLog[1].err = NilErr
    /\ crLog[1].call.op = "GetPackage"
    /\ ret.op = "Set" /\ ret.again /\ ret.key = CacheKey(crLog[1].call)
    /\ items[CacheKey(crLog[1].call)].value = crLog[1].value
    /\ crOps = 1

\* C25 as stated: calls that differ in the operation or in a parameter have
\* different keys, so that an operation that returns a value returns one
\* the wrapped repository produced for this very call.
C25_KeysInjective ==
    \A i \in DOMAIN crLog :
        crLog[i].err = NilErr => crLog[i].value.from = crLog[i].call

\* the share of the base TTL the claim gives each operation
ClaimedTTL(op) ==
    CASE op \in {"Search", "GetGemLatestVersion", "Downloads",
                 "VersionDownloads"} -> Quot(defaultTTL, 2)
      [] op = "LatestGems" -> Quot(defaultTTL, 4)
      [] op \in {"GetPackage", "GetGemVersions", "GetTimeFrameVersions",
                 "GetDependencies", "GetReverseDependencies"} -> defaultTTL

\* C26: Search, GetGemLatestVersion, Downloads and VersionDownloads pass
\* half of the base TTL to SetWithExpiration, LatestGems a quarter and the
\* other five operations the base TTL; a share that is positive is the
\* lifetime of the entry.
C26_TTLShares ==
    /\ crPc = "store" =>
            /\ callArgs["repo"].d = ClaimedTTL(crCall.op)
            /\ callArgs["repo"].d > 0 =>
                  callArgs["repo"].expiration =
                      callArgs["repo"].setTime + ClaimedTTL(crCall.op)
    /\ \A k \in DOMAIN items :
            ClaimedTTL(items[k].value.from.op) > 0 =>
                items[k].expiration = now + ClaimedTTL(items[k].value.from.op)

\* with a base TTL of 4, the entry of LatestGems lives 1 and that of
\* GetPackage 4
C26_Witness ==
    /\ defaultTTL = 4
    /\ crPc = "idle"
    /\ DOMAIN items = {"latest_gems", "package:a"}
    /\ items["latest_gems"].expiration = now + 1
    /\ items["package:a"].expiration = now + 4

\* C27 as stated: once Close of the CachedRepository has returned, the sweep
\* of its store has been signalled to stop.
C27_CloseStopsSweep ==
    stopCleanupCh = "closed" =>
        \/ stopCleanup = "closed"
        \/ sweepPc \in {"off", "stopped"}

\* C28 as stated: no call of Close panics.
C28_CloseNeverPanics == ~crPanicked

----------------------------------------------------------------------------
(* MemoryCache under concurrent callers *)

\* C31: the scan of a sweep that read the clock at sweepNow removes only
\* entries whose expiration is set and before sweepNow, and leaves every
\* other entry as it is: the entries that never expire, the entries that
\* have not expired, and an entry a Set stored after the sweep read the
\* clock.
C31_SweepRemovesOnlyExpired ==
    [][SweepDelete =>
        /\ DOMAIN items' \subseteq DOMAIN items
        /\ \A k \in DOMAIN items :
              IF items[k].expiration # 0 /\ items[k].expiration < sweepNow
              THEN k \notin DOMAIN items'
              ELSE k \in DOMAIN items' /\ items'[k] = items[k]
        /\ \A k \in DOMAIN items :
              (items[k].expiration = 0 \/ items[k].expiration >= now) =>
                  (k \in DOMAIN items' /\ items'[k] = items[k])]_vars

\* a sweep has read the clock and waits for the lock, and a Set has just
\* replaced the entry of a key with one that expires after the sweep's time
C31_Witness ==
    /\ sweepPc = "deleteExpired"
    /\ ret.op = "Set" /\ ret.again
    /\ ret.key \in DOMAIN items
    /\ items[ret.key].expiration > sweepNow
    /\ sweepNow = now

\* C32: Clear empties the store in one step under the write lock, so that
\* Get and Count, which each read the store in one step under the read
\* lock, see it either as it was before the Clear or without any entry of
\* before the Clear; a Set that waits for the lock while Clear runs is not
\* disturbed, and its entry is in the store once it has committed.
C32_ClearIsAtomic ==
    [][/\ CallClear =>
            /\ DOMAIN items' = {}
            /\ callPc' = callPc /\ callArgs' = callArgs
       /\ \A k \in Keys : CallGet(k) =>
            /\ ret'.found <=> (k \in DOMAIN items /\ ~IsExpired(items[k], now))
            /\ ret'.found => ret'.value = items[k].value
       /\ CallCount => ret'.count = Cardinality(DOMAIN items)
       /\ \A c \in DOMAIN callPc : SetCommit(c) =>
            /\ callArgs[c].key \in DOMAIN items'
            /\ items'[callArgs[c].key].value = callArgs[c].value
            /\ \A k \in DOMAIN items \ {callArgs[c].key} :
                  k \in DOMAIN items' /\ items'[k] = items[k]]_vars

\* Clear has just removed two entries while a Set waits for the lock
C32_Witness ==
    /\ ret.op = "Clear" /\ ret.count = 2
    /\ items = EmptyMap
    /\ \E c \in DOMAIN callPc : callPc[c] = "lock"

\* C33: the entry a SetWithExpiration stores when it holds the write lock is
\* its own value together with its own expiration, whatever entry another
\* call stored under the key before, and no other entry changes; so the
\* entry of a key is always the whole entry of the call that took the lock
\* last.
C33_LastCommitWinsWhole ==
    [][\A c \in DOMAIN callPc : SetCommit(c) =>
            /\ items'[callArgs[c].key] =
                    [value |-> callArgs[c].value,
                     expiration |-> callArgs[c].expiration]
            /\ \A k \in DOMAIN items \ {callArgs[c].key} :
                    k \in DOMAIN items' /\ items'[k] = items[k]]_vars

\* one call has just replaced the entry of the key while the other call,
\* with another value and another expiration for the same key, waits for
\* the lock
C33_Witness ==
    /\ ret.op = "Set" /\ ret.again
    /\ ret.key \in DOMAIN items
    /\ \E c \in DOMAIN callPc :
          /\ callPc[c] = "lock"
          /\ callArgs[c].key = ret.key
          /\ callArgs[c].value # items[ret.key].value
          /\ callArgs[c].expiration # 0
          /\ items[ret.key].expiration > callArgs[c].expiration

----------------------------------------------------------------------------
(* The worker pool of a bulk call *)

\* the smaller of two numbers
Min2(a, b) == IF a < b THEN a ELSE b

\* the workers that are inside a single-item fetch
Fetching == {w \in DOMAIN workers : workers[w].pc = "fetch"}

\* C34: a bulk call for N gems with MaxConcurrency >= 1 starts
\* min(MaxConcurrency, N) workers, none for N = 0, where it returns an
\* empty slice; a worker is in one fetch at a time, so the fetches in
\* flight are never more than MaxConcurrency.
C34_WorkerCount ==
    (bPc # "call" /\ bOpts.MaxConcurrency >= 1) =>
        /\ Len(workers) = Min2(bOpts.MaxConcurrency, Len(gemNames))
        /\ Cardinality(Fetching) <= bOpts.MaxConcurrency
        /\ Cardinality(Fetching) <= Len(workers)
        /\ \A v, w \in Fetching : v # w => workers[v].job # workers[w].job
        /\ (Returned /\ Len(gemNames) = 0) => results = <<>>

\* with MaxConcurrency = 1 and two gems, the one worker is in a fetch and
\* the other job waits in the channel
C34_Witness ==
    /\ bPc # "call"
    /\ bOpts.MaxConcurrency = 1
    /\ Len(gemNames) = 2
    /\ Len(workers) = 1
    /\ workers[1].pc = "fetch"
    /\ Len(jobs) = 1

\* the indices in the channel, and the indices the running workers hold
Queued == {jobs[j] : j \in DOMAIN jobs}
Held == {workers[w].job :
            w \in {v \in DOMAIN workers : workers[v].pc \in {"select", "fetch"}}}

\* C37: an index is in the channel once or held by one worker, never both
\* and never again after its slot was written; a step writes at most one
\* slot, one that was nil and whose index a worker holds; and once the
\* call has returned no worker is left to write.
C37_DequeuedOnce ==
    [][/\ \A i, j \in DOMAIN jobs : i # j => jobs[i] # jobs[j]
       /\ \A v, w \in DOMAIN workers :
            (v # w /\ workers[v].pc \in {"select", "fetch"}
                   /\ workers[w].pc \in {"select", "fetch"}) =>
                workers[v].job # workers[w].job
       /\ Queued \cap Held = {}
       /\ \A i \in Queued \cup Held : results[i] = NilResult
       /\ bPc \notin {"call", "panic"} =>
            \A i \in DOMAIN results :
                results'[i] # results[i] =>
                    /\ results[i] = NilResult
                    /\ i \in Held
                    /\ \A k \in DOMAIN results \ {i} : results'[k] = results[k]
       /\ Returned' => \A w \in DOMAIN workers' : workers'[w].pc = "exit"]_vars

\* two workers have each taken one of the two indices and written its slot
C37_Witness ==
    /\ Returned
    /\ Len(workers) = 2
    /\ workers[1].job # workers[2].job
    /\ workers[1].job # 0 /\ workers[2].job # 0
    /\ \A i \in DOMAIN results : Populated(i)

\* a bound on the steps left to the goroutines of the call
WorkerRank(pc) ==
    CASE pc = "exit" -> 0
      [] pc = "range" -> 1
      [] pc = "fetch" -> 2
      [] pc = "select" -> 3
RECURSIVE SumRanks(_)
SumRanks(ws) ==
    IF ws = <<>> THEN 0 ELSE WorkerRank(Head(ws).pc) + SumRanks(Tail(ws))
StepsLeft ==
    CASE bPc = "call" -> 100
      [] bPc = "panic" -> 0
      [] bPc = "returned" -> 0
      [] bPc = "wait" -> 1 + SumRanks(workers) + 3 * Len(jobs)
      [] bPc = "dispatch" ->
            2 + SumRanks(workers) + 3 * Len(jobs)
              + 4 * (Len(gemNames) + 1 - bNext)

\* C38: a bulk call terminates: as long as it has not returned one of its
\* goroutines can take a step (the dispatch never waits for room in the
\* channel, wg.Wait() is reached, and a worker always can go on), and every
\* step of a goroutine lowers a bound on the steps left.
C38_BulkTerminates ==
    /\ [](bPc \notin {"returned", "panic"} => ENABLED BulkProgramNext)
    /\ []((bPc = "dispatch" /\ bNext <= Len(gemNames)) => ENABLED Dispatch)
    /\ [][BulkProgramNext => StepsLeft' < StepsLeft]_vars

\* the call has returned although every worker stopped early and a job is
\* still in the channel
C38_Witness ==
    /\ Returned
    /\ jobs # <<>>
    /\ Len(workers) >= 1
    /\ \A w \in DOMAIN workers : workers[w].pc = "exit"

----------------------------------------------------------------------------
(* SendRequestWithRetry: cancellation, backoff at large attempt numbers,    *)
(* and the nil error                                                        *)

\* C35: a request that returned the cancellation or deadline error of the
\* context is the last request of the call, and the call returns that error
\* itself.
C35_CancellationNotRetried ==
    /\ \A i \in DOMAIN sendLog : sendLog[i].err = CtxErr => i = Len(sendLog)
    /\ (rPc = "done" /\ sendLog # <<>> /\ sendLog[Len(sendLog)].err = CtxErr) =>
            rRet.err = CtxErr

\* C36: with exponential backoff the wait before a request is not negative,
\* not above MaxWaitTime and not below the wait before the request before
\* it, at every attempt number.
C36_BackoffMonotone ==
    [][(BackoffStep /\ rOpts.UseExponentialBackoff) =>
            /\ 0 <= waitTime'
            /\ waitTime' <= rOpts.MaxWaitTime
            /\ attempt >= 1 => waitTime <= waitTime']_vars

\* C39: a call that returned a nil error sent at least one request, one of
\* its requests succeeded, and it sent no more than MaxAttempts requests.
C39_NilErrorMeansSuccess ==
    (rPc = "done" /\ rRet.err = NilErr) =>
        /\ sendLog # <<>>
        /\ \E i \in DOMAIN sendLog : sendLog[i].err = NilErr
        /\ Len(sendLog) <= rOpts.MaxAttempts

----------------------------------------------------------------------------
(* CachedRepository: the lifetimes the store assigns *)

\* the operations whose results the repository takes to change quickly, and
\* those it takes to be stable
VolatileOps ==
    {"Search", "GetGemLatestVersion", "Downloads", "VersionDownloads",
     "LatestGems"}
StableOps ==
    {"GetPackage", "GetGemVersions", "GetTimeFrameVersions",
     "GetDependencies", "GetReverseDependencies"}

\* whether an entry that expires at e1 lives no longer than one that expires
\* at e2, both stored at the same instant; the zero time never expires
LivesNoLonger(e1, e2) == e2 = 0 \/ (e1 # 0 /\ e1 <= e2)

\* C40: of two entries stored at the same instant, the one of a volatile
\* operation never expires later than the one of a stable operation.
C40_VolatileNoLongerThanStable ==
    \A k1, k2 \in DOMAIN items :
        (/\ items[k1].value.from.op \in VolatileOps
         /\ items[k2].value.from.op \in StableOps) =>
            LivesNoLonger(items[k1].expiration, items[k2].expiration)

====
